---- MODULE Spec2Model ----
(***************************************************************************)
(* Model of the cyclone point-mass physics core: the Vector3 algebra       *)
(* (package math64), the Particle with its integrator (package physics),   *)
(* the force generators and the ForceRegistry.                             *)
(*                                                                         *)
(* Numbers.  The code computes in float64.  The model computes in exact    *)
(* rational arithmetic: a number is a pair <<n, d>> in lowest terms with   *)
(* d > 0.  The values the model draws its inputs from are small integers   *)
(* and halves, quarters, ... of them; on such dyadic values of small       *)
(* magnitude every float64 operation the code performs is exact, so the    *)
(* model and the code agree on them bit for bit.  Decimal values such as   *)
(* 0.99 appear only in the worked scenario of C4, where the model gives    *)
(* the exact value the float64 result approximates.  math.Sqrt is modelled *)
(* where its result is rational (HasSqrt), math.Pow for integer exponents. *)
(* The mass accessors are modelled a second time in float64 itself         *)
(* (Float64...), with the division rounded as IEEE 754 rounds it, for the  *)
(* masses whose reciprocal float64 cannot hold exactly.                    *)
(***************************************************************************)
EXTENDS Integers, Sequences, FiniteSets, TLC

----------------------------------------------------------------------------
(* Rational numbers standing for float64 values *)

Abs(n) == IF n < 0 THEN -n ELSE n

RECURSIVE GCD(_, _)
GCD(a, b) == IF b = 0 THEN a ELSE GCD(b, a % b)

Norm(n, d) ==
    LET s == IF d < 0 THEN -1 ELSE 1
        g == GCD(Abs(n), Abs(d))
    IN  <<(s * n) \div g, (s * d) \div g>>

R(n) == <<n, 1>>
Frac(n, d) == Norm(n, d)

Zero == R(0)
One == R(1)

RAdd(a, b) == Norm(a[1] * b[2] + b[1] * a[2], a[2] * b[2])
RSub(a, b) == Norm(a[1] * b[2] - b[1] * a[2], a[2] * b[2])
RMul(a, b) == Norm(a[1] * b[1], a[2] * b[2])
RDiv(a, b) == Norm(a[1] * b[2], a[2] * b[1])
RLe(a, b) == a[1] * b[2] <= b[1] * a[2]
RLt(a, b) == a[1] * b[2] < b[1] * a[2]

\* math.Inf(1): the value Mass() returns for an immovable particle
Inf == "+Inf"

\* math.Pow(x, y) for the integer exponents the model uses
RECURSIVE PowNat(_, _)
PowNat(x, k) == IF k = 0 THEN One ELSE RMul(x, PowNat(x, k - 1))

Pow(x, y) ==
    IF y[1] >= 0 THEN PowNat(x, y[1]) ELSE RDiv(One, PowNat(x, -y[1]))

\* math.Sqrt where the root is rational
RECURSIVE ISqrtFrom(_, _)
ISqrtFrom(n, x) ==
    LET y == (x + n \div x) \div 2
    IN  IF y >= x THEN x ELSE ISqrtFrom(n, y)

\* the integer part of the square root (Newton's iteration)
ISqrt(n) == IF n = 0 THEN 0 ELSE ISqrtFrom(n, n)
IsSquare(n) == ISqrt(n) * ISqrt(n) = n
HasSqrt(a) == a[1] >= 0 /\ IsSquare(a[1]) /\ IsSquare(a[2])
Sqrt(a) == <<ISqrt(a[1]), ISqrt(a[2])>>

----------------------------------------------------------------------------
(* Vector3 *)

NewVector3(x, y, z) == [X |-> x, Y |-> y, Z |-> z]
Vec(x, y, z) == NewVector3(R(x), R(y), R(z))
ZeroVector == [X |-> Zero, Y |-> Zero, Z |-> Zero]

\* v.Scale(k): v *= k
Scale(v, k) == [X |-> RMul(v.X, k), Y |-> RMul(v.Y, k), Z |-> RMul(v.Z, k)]

\* v.ScaleCopy(k)
ScaleCopy(v, k) == [X |-> RMul(v.X, k), Y |-> RMul(v.Y, k), Z |-> RMul(v.Z, k)]

\* v.Add(s): v += s
Add(v, s) == [X |-> RAdd(v.X, s.X), Y |-> RAdd(v.Y, s.Y), Z |-> RAdd(v.Z, s.Z)]

\* v.ScaleAdd(s, k): v += s * k
ScaleAdd(v, s, k) ==
    [X |-> RAdd(v.X, RMul(s.X, k)),
     Y |-> RAdd(v.Y, RMul(s.Y, k)),
     Z |-> RAdd(v.Z, RMul(s.Z, k))]

\* v.lengthSquared()
lengthSquared(v) == RAdd(RAdd(RMul(v.X, v.X), RMul(v.Y, v.Y)), RMul(v.Z, v.Z))

\* v.Magnitude()
Magnitude(v) == Sqrt(lengthSquared(v))

\* v.Normalize()
Normalize(v) ==
    LET n == Magnitude(v)
    IN  IF RLt(Zero, n)
        THEN NewVector3(RDiv(v.X, n), RDiv(v.Y, n), RDiv(v.Z, n))
        ELSE ZeroVector

----------------------------------------------------------------------------
(* Particle *)

\* the error values Integrate returns (PhysicsError.Message)
Nil == "nil"
ErrInfiniteMass == "integration is not performed on infinite mass"
ErrNegativeDuration == "can not perform integration on a negative duration"

\* SetMass treating only a zero mass as infinite
SetMass_ZeroOnly(p, mass) ==
    IF mass = Zero
    THEN [p EXCEPT !.inverseMass = Zero]
    ELSE [p EXCEPT !.inverseMass = RDiv(One, mass)]

\* p.SetMass(mass)
SetMass(p, mass) ==
    IF RLe(mass, Zero)
    THEN [p EXCEPT !.inverseMass = Zero]
    ELSE [p EXCEPT !.inverseMass = RDiv(One, mass)]

\* p.SetInverseMass(inverseMass)
SetInverseMass(p, inverseMass) ==
    IF RLe(inverseMass, Zero)
    THEN [p EXCEPT !.inverseMass = Zero]
    ELSE [p EXCEPT !.inverseMass = inverseMass]

\* the struct literal of the constructors: fields not named get Go's zero value
ParticleLiteral(position, velocity, acceleration, damping) ==
    [Position |-> position, Velocity |-> velocity,
     Acceleration |-> acceleration, Damping |-> damping,
     inverseMass |-> Zero, forceAccumulator |-> ZeroVector]

NewParticleMass(position, velocity, acceleration, damping, mass) ==
    SetMass(ParticleLiteral(position, velocity, acceleration, damping), mass)

NewParticleInverseMass(position, velocity, acceleration, damping, inverseMass) ==
    SetInverseMass(ParticleLiteral(position, velocity, acceleration, damping),
                   inverseMass)

\* p.Mass()
Mass(p) == IF p.inverseMass = Zero THEN Inf ELSE RDiv(One, p.inverseMass)

\* p.HasFiniteMass()
HasFiniteMass(p) == RLt(Zero, p.inverseMass)

\* AddForce overwriting the accumulator
AddForce_Overwrite(p, force) == [p EXCEPT !.forceAccumulator = force]

\* p.AddForce(force)
AddForce(p, force) == [p EXCEPT !.forceAccumulator = Add(@, force)]

\* p.ClearForces()
ClearForces(p) == [p EXCEPT !.forceAccumulator = ZeroVector]

\* the switch with inverseMass < 0.0 for its first case
IntegrateError_StrictMass(p, duration) ==
    CASE RLt(p.inverseMass, Zero) -> ErrInfiniteMass
      [] RLe(duration, Zero) -> ErrNegativeDuration
      [] OTHER -> Nil

\* the switch with duration < 0.0 for its second case
IntegrateError_StrictDuration(p, duration) ==
    CASE RLe(p.inverseMass, Zero) -> ErrInfiniteMass
      [] RLt(duration, Zero) -> ErrNegativeDuration
      [] OTHER -> Nil

\* the error Integrate returns: the switch at its head
IntegrateError(p, duration) ==
    CASE RLe(p.inverseMass, Zero) -> ErrInfiniteMass
      [] RLe(duration, Zero) -> ErrNegativeDuration
      [] OTHER -> Nil

\* the body with the position advanced after the velocity, by the new velocity
IntegrateBody_NewVelocity(p, duration) ==
    LET resultingAcceleration ==
            ScaleAdd(p.Acceleration, p.forceAccumulator, p.inverseMass)
        p1 == [p EXCEPT !.Velocity = ScaleAdd(@, resultingAcceleration, duration)]
        dampingFactor == Pow(p1.Damping, duration)
        p2 == [p1 EXCEPT !.Velocity = Scale(@, dampingFactor)]
        p3 == [p2 EXCEPT !.Position = ScaleAdd(@, p2.Velocity, duration)]
    IN  ClearForces(p3)

\* the body without the final ClearForces
IntegrateBody_NoClear(p, duration) ==
    LET p1 == [p EXCEPT !.Position = ScaleAdd(@, p.Velocity, duration)]
        resultingAcceleration ==
            ScaleAdd(p1.Acceleration, p1.forceAccumulator, p1.inverseMass)
        p2 == [p1 EXCEPT !.Velocity = ScaleAdd(@, resultingAcceleration, duration)]
        dampingFactor == Pow(p2.Damping, duration)
    IN  [p2 EXCEPT !.Velocity = Scale(@, dampingFactor)]

\* the body with the velocity scaled by Damping itself, not by Damping^duration
IntegrateBody_NoTimeScale(p, duration) ==
    LET p1 == [p EXCEPT !.Position = ScaleAdd(@, p.Velocity, duration)]
        resultingAcceleration ==
            ScaleAdd(p1.Acceleration, p1.forceAccumulator, p1.inverseMass)
        p2 == [p1 EXCEPT !.Velocity = ScaleAdd(@, resultingAcceleration, duration)]
        p3 == [p2 EXCEPT !.Velocity = Scale(@, p2.Damping)]
    IN  ClearForces(p3)

\* the body of Integrate after the switch, statement by statement
\* the accumulated force left out of the resulting acceleration
IntegrateBody_NoForce(p, duration) ==
    LET position == ScaleAdd(p.Position, p.Velocity, duration)
        velocity == ScaleAdd(p.Velocity, p.Acceleration, duration)
        dampingFactor == Pow(p.Damping, duration)
    IN  ClearForces([p EXCEPT !.Position = position,
                              !.Velocity = Scale(velocity, dampingFactor)])

\* the accumulated force folded into the Acceleration field itself, not into
\* a copy of it
IntegrateBody_SharedAcceleration(p, duration) ==
    LET p1 == [p EXCEPT !.Position = ScaleAdd(@, p.Velocity, duration)]
        p2 == [p1 EXCEPT !.Acceleration =
                            ScaleAdd(@, p1.forceAccumulator, p1.inverseMass)]
        p3 == [p2 EXCEPT !.Velocity = ScaleAdd(@, p2.Acceleration, duration)]
        dampingFactor == Pow(p3.Damping, duration)
        p4 == [p3 EXCEPT !.Velocity = Scale(@, dampingFactor)]
    IN  ClearForces(p4)

IntegrateBody(p, duration) ==
    LET p1 == [p EXCEPT !.Position = ScaleAdd(@, p.Velocity, duration)]
        resultingAcceleration ==
            ScaleAdd(p1.Acceleration, p1.forceAccumulator, p1.inverseMass)
        p2 == [p1 EXCEPT !.Velocity = ScaleAdd(@, resultingAcceleration, duration)]
        dampingFactor == Pow(p2.Damping, duration)
        p3 == [p2 EXCEPT !.Velocity = Scale(@, dampingFactor)]
    IN  ClearForces(p3)

\* Integrate clearing the accumulator before it returns an error
Integrate_ClearOnError(p, duration) ==
    IF IntegrateError(p, duration) = Nil
    THEN IntegrateBody(p, duration)
    ELSE ClearForces(p)

\* the particle after p.Integrate(duration)
Integrate(p, duration) ==
    IF IntegrateError(p, duration) = Nil THEN IntegrateBody(p, duration) ELSE p

----------------------------------------------------------------------------
(* float64 and the mass accessors computed in it *)

\* A float64 is [sign, sig, exp] and stands for sign * sig * 2^exp: sign is
\* -1, 0 or 1, and sig is the 53-bit significand, 2^52 <= sig < 2^53, written
\* as two limbs <<high, low>> = high * Limb + low. Zero is sign 0. The
\* exponents of the values below stay far from the float64 limits, so there
\* is no overflow, underflow or subnormal.
Limb == 134217728
Big(n) == <<0, n>>
BigDouble(x) == <<2 * x[1] + (2 * x[2]) \div Limb, (2 * x[2]) % Limb>>
BigInc(x) == IF x[2] + 1 = Limb THEN <<x[1] + 1, 0>> ELSE <<x[1], x[2] + 1>>
BigDec(x) == IF x[2] = 0 THEN <<x[1] - 1, Limb - 1>> ELSE <<x[1], x[2] - 1>>
BigGe(x, y) == x[1] > y[1] \/ (x[1] = y[1] /\ x[2] >= y[2])
BigSub(x, y) ==
    IF x[2] >= y[2]
    THEN <<x[1] - y[1], x[2] - y[2]>>
    ELSE <<x[1] - y[1] - 1, x[2] + Limb - y[2]>>
BigOdd(x) == x[2] % 2 = 1

\* 2^52 and 2^53
MinSig == <<Limb \div 4, 0>>
EndSig == <<Limb \div 2, 0>>

Float64Zero == [sign |-> 0, sig |-> Big(0), exp |-> 0]

\* math.Inf(1): no significand, the exponent above every finite one
Float64Inf == [sign |-> 1, sig |-> Big(0), exp |-> 1024]

\* float64(n) for an integer n, |n| < 2^26: n = h * 2^(-j) with
\* 2^26 <= h < 2^27, and the significand is h * 2^26
Float64(n) ==
    IF n = 0
    THEN Float64Zero
    ELSE LET j == CHOOSE j \in 0..26 :
                    /\ Abs(n) * 2^j >= Limb \div 2
                    /\ Abs(n) * 2^j < Limb
             h == Abs(n) * 2^j
         IN  [sign |-> IF n < 0 THEN -1 ELSE 1,
              sig |-> <<h \div 2, (h % 2) * (Limb \div 2)>>,
              exp |-> 0 - 26 - j]

\* one more bit of the long division of 2^k by sig, q = floor(2^k / sig) and
\* r = 2^k - q * sig, unless the quotient has its 53 bits
Float64DivideBit(sig, d) ==
    IF BigGe(d.q, MinSig)
    THEN d
    ELSE LET r2 == BigDouble(d.r)
         IN  IF BigGe(r2, sig)
             THEN [q |-> BigInc(BigDouble(d.q)), r |-> BigSub(r2, sig), k |-> d.k + 1]
             ELSE [q |-> BigDouble(d.q), r |-> r2, k |-> d.k + 1]

\* eight more bits, each from the value of the division before it
Float64DivideByte(sig, d) ==
    CHOOSE d8 \in
        {Float64DivideBit(sig, d7) : d7 \in
        {Float64DivideBit(sig, d6) : d6 \in
        {Float64DivideBit(sig, d5) : d5 \in
        {Float64DivideBit(sig, d4) : d4 \in
        {Float64DivideBit(sig, d3) : d3 \in
        {Float64DivideBit(sig, d2) : d2 \in
        {Float64DivideBit(sig, d1) : d1 \in
        {Float64DivideBit(sig, d0) : d0 \in {d}}}}}}}}} : TRUE

\* the long division of a power of two by sig, 2^52 <= sig < 2^53, until the
\* quotient has 53 bits: up to 2^51 the quotient is 0, and the 53rd bit comes
\* with 2^104 or 2^105, within 7 times 8 bits from there
Float64DivideBits(sig) ==
    CHOOSE b7 \in
        {Float64DivideByte(sig, b6) : b6 \in
        {Float64DivideByte(sig, b5) : b5 \in
        {Float64DivideByte(sig, b4) : b4 \in
        {Float64DivideByte(sig, b3) : b3 \in
        {Float64DivideByte(sig, b2) : b2 \in
        {Float64DivideByte(sig, b1) : b1 \in
        {Float64DivideByte(sig, b0) : b0 \in
        {[q |-> Big(0), r |-> <<Limb \div 8, 0>>, k |-> 51]}}}}}}}} : TRUE

\* the quotient d of the long division by y.sig rounded to the nearest
\* float64, a tie to the even significand
Float64Round(d, y) ==
    LET twice == BigDouble(d.r)
        up == BigGe(twice, y.sig) /\ (twice # y.sig \/ BigOdd(d.q))
        q == IF up THEN BigInc(d.q) ELSE d.q
    IN  IF q = EndSig
        THEN [sign |-> y.sign, sig |-> MinSig, exp |-> 1 - d.k - y.exp]
        ELSE [sign |-> y.sign, sig |-> q, exp |-> 0 - d.k - y.exp]

\* 1.0 / x for x # 0
Float64Reciprocal(x) ==
    CHOOSE quotient \in UNION
        {{Float64Round(d, y) : d \in {Float64DivideBits(y.sig)}} : y \in {x}} : TRUE

\* the float64 next above and next below a positive float64
Float64NextUp(x) ==
    IF BigInc(x.sig) = EndSig
    THEN [x EXCEPT !.sig = MinSig, !.exp = x.exp + 1]
    ELSE [x EXCEPT !.sig = BigInc(x.sig)]

Float64NextDown(x) ==
    IF x.sig = MinSig
    THEN [x EXCEPT !.sig = BigDec(EndSig), !.exp = x.exp - 1]
    ELSE [x EXCEPT !.sig = BigDec(x.sig)]

\* SetMass in float64 treating only a zero mass as infinite
Float64SetMass_ZeroOnly(p, mass) ==
    IF mass.sign = 0
    THEN [p EXCEPT !.inverseMass = Float64Zero]
    ELSE [p EXCEPT !.inverseMass = Float64Reciprocal(mass)]

\* p.SetMass(mass) in float64
Float64SetMass(p, mass) ==
    IF mass.sign <= 0
    THEN [p EXCEPT !.inverseMass = Float64Zero]
    ELSE [p EXCEPT !.inverseMass = Float64Reciprocal(mass)]

\* p.SetInverseMass(inverseMass) in float64
Float64SetInverseMass(p, inverseMass) ==
    IF inverseMass.sign <= 0
    THEN [p EXCEPT !.inverseMass = Float64Zero]
    ELSE [p EXCEPT !.inverseMass = inverseMass]

\* p.Mass() in float64
Float64Mass(p) ==
    IF p.inverseMass = Float64Zero
    THEN Float64Inf
    ELSE Float64Reciprocal(p.inverseMass)

\* p.HasFiniteMass() in float64
Float64HasFiniteMass(p) == p.inverseMass.sign > 0

\* the first case of the switch of Integrate in float64
Float64IntegrateFailsOnMass(p) == p.inverseMass.sign <= 0

----------------------------------------------------------------------------
(* Force generators *)

GravityKind == "GravityGenerator"
DragKind == "DragGenerator"
UpliftKind == "UpliftForceGenerator"
AirBrakeKind == "AirBrakeForceGenerator"

NewGravityGenerator(gravity) == [kind |-> GravityKind, Gravity |-> gravity]

NewUpliftForceGenerator(center, radius, force) ==
    [kind |-> UpliftKind, Center |-> center, Radius |-> radius, Force |-> force]

NewDragGenerator(k1, k2) == [kind |-> DragKind, K1 |-> k1, K2 |-> k2]

NewAirBrakeForceGenerator(normK1, normK2, brakeK1, brakeK2) ==
    [kind |-> AirBrakeKind, On |-> FALSE,
     NormalDrag |-> NewDragGenerator(normK1, normK2),
     BrakingDrag |-> NewDragGenerator(brakeK1, brakeK2)]

\* gravity scaled by the inverse mass instead of the mass
GravityUpdateForce_InverseMass(g, particle) ==
    IF ~HasFiniteMass(particle)
    THEN particle
    ELSE AddForce(particle, ScaleCopy(g.Gravity, particle.inverseMass))

\* gravity assigned to the accumulator instead of added to it
GravityUpdateForce_Assign(g, particle) ==
    IF ~HasFiniteMass(particle)
    THEN particle
    ELSE [particle EXCEPT
            !.forceAccumulator = ScaleCopy(g.Gravity, Mass(particle))]

\* the gravity vector added as it is, not scaled by the mass
GravityUpdateForce_NoMass(g, particle) ==
    IF ~HasFiniteMass(particle)
    THEN particle
    ELSE AddForce(particle, g.Gravity)

\* g.UpdateForce(particle, _)
GravityUpdateForce(g, particle) ==
    IF ~HasFiniteMass(particle)
    THEN particle
    ELSE AddForce(particle, ScaleCopy(g.Gravity, Mass(particle)))

\* the drag with the K2 term in the square of the speed
DragUpdateForce_Quadratic(d, particle) ==
    LET speed == Magnitude(particle.Velocity)
        dragCoeff == RAdd(RMul(d.K1, speed), RMul(d.K2, RMul(speed, speed)))
        force == ScaleCopy(Normalize(particle.Velocity), dragCoeff)
    IN  AddForce(particle, force)

\* d.UpdateForce(particle, _)
DragUpdateForce(d, particle) ==
    LET force0 == particle.Velocity
        dragCoeff0 == Magnitude(force0)
        dragCoeff == RAdd(RMul(d.K1, dragCoeff0), RMul(d.K2, dragCoeff0))
        force1 == Normalize(force0)
        force == ScaleCopy(force1, dragCoeff)
    IN  AddForce(particle, force)

\* the square of the X-Z distance calcDistance takes the root of
calcDistanceSquared(u, particle) ==
    LET dx == RSub(particle.Position.X, u.Center.X)
        dz == RSub(particle.Position.Z, u.Center.Z)
    IN  RAdd(RMul(dx, dx), RMul(dz, dz))

\* u.calcDistance(particle)
calcDistance(u, particle) == Sqrt(calcDistanceSquared(u, particle))

\* the uplift applied without the test against the radius
UpliftUpdateForce_NoRadiusTest(u, particle) ==
    LET distance == calcDistance(u, particle)
        forceMag == RMul(u.Force, RSub(One, RDiv(distance, u.Radius)))
        uplift == NewVector3(Zero, forceMag, Zero)
    IN  AddForce(particle, uplift)

\* u.UpdateForce(particle, _)
UpliftUpdateForce(u, particle) ==
    LET distance == calcDistance(u, particle)
    IN  IF RLe(distance, u.Radius)
        THEN LET forceMag == RMul(u.Force, RSub(One, RDiv(distance, u.Radius)))
                 uplift == NewVector3(Zero, forceMag, Zero)
             IN  AddForce(particle, uplift)
        ELSE particle

\* a.UpdateForce(particle, duration): both branches are commented out
AirBrakeUpdateForce(a, particle) ==
    IF a.On THEN particle ELSE particle

\* reg.fg.UpdateForce(reg.particle, duration): the interface call, for the
\* generator kinds in GeneratorObjects
UpdateForce(fg, particle, duration) ==
    CASE fg.kind = GravityKind -> GravityUpdateForce(fg, particle)
      [] fg.kind = DragKind -> DragUpdateForce(fg, particle)
      [] fg.kind = UpliftKind -> UpliftUpdateForce(fg, particle)
      [] fg.kind = AirBrakeKind -> AirBrakeUpdateForce(fg, particle)

----------------------------------------------------------------------------
(* ForceRegistry *)

\* AddForce skipping a pair that is registered already
RegistryAddForce_NoDuplicates(regs, particle, fg) ==
    IF \E i \in 1..Len(regs) : regs[i] = [particle |-> particle, fg |-> fg]
    THEN regs
    ELSE Append(regs, [particle |-> particle, fg |-> fg])

\* r.AddForce(particle, fg): append a registration
RegistryAddForce(regs, particle, fg) ==
    Append(regs, [particle |-> particle, fg |-> fg])

\* removeCopy(registry, i), i counted from 1: the tail is copied one place
\* down and the last place is cut off
removeCopy(registry, i) ==
    [j \in 1..(Len(registry) - 1) |-> IF j < i THEN registry[j] ELSE registry[j + 1]]

\* r.RemoveForce(particle, fg): the range loop, from registration i on
RECURSIVE RemoveForceFrom(_, _, _, _)
RemoveForceFrom(regs, particle, fg, i) ==
    IF i > Len(regs)
    THEN regs
    ELSE IF regs[i].particle = particle /\ regs[i].fg = fg
         THEN removeCopy(regs, i)
         ELSE RemoveForceFrom(regs, particle, fg, i + 1)

\* RemoveForce matching on the particle alone
RemoveForce_ParticleOnly(regs, particle, fg) ==
    IF \E i \in 1..Len(regs) : regs[i].particle = particle
    THEN removeCopy(regs, CHOOSE i \in 1..Len(regs) :
                            /\ regs[i].particle = particle
                            /\ \A j \in 1..(i - 1) : regs[j].particle # particle)
    ELSE regs

\* RemoveForce without the return after the first match: every match goes
RemoveForce_AllMatches(regs, particle, fg) ==
    SelectSeq(regs, LAMBDA reg : ~(reg.particle = particle /\ reg.fg = fg))

RemoveForce(regs, particle, fg) == RemoveForceFrom(regs, particle, fg, 1)

\* Clear on a copy of the registry (a value receiver): nothing is removed
Clear_ValueReceiver(regs) == regs

\* r.Clear(): registrations = nil
Clear(regs) == << >>

\* r.UpdateForces(duration): the range loop, from registration i on
RECURSIVE UpdateForcesFrom(_, _, _, _, _)
UpdateForcesFrom(regs, gens, ps, duration, i) ==
    IF i > Len(regs)
    THEN ps
    ELSE LET reg == regs[i]
             after == UpdateForce(gens[reg.fg], ps[reg.particle], duration)
         IN  UpdateForcesFrom(regs, gens,
                              [ps EXCEPT ![reg.particle] = after], duration, i + 1)

\* the loop starting at the second registration
UpdateForces_FromSecond(regs, gens, ps, duration) ==
    UpdateForcesFrom(regs, gens, ps, duration, 2)

UpdateForces(regs, gens, ps, duration) ==
    UpdateForcesFrom(regs, gens, ps, duration, 1)

\* the UpdateForce calls the range loop makes, from registration i on: the
\* receiver and the particle of each call, in the order of the calls
RECURSIVE UpdateForceCallsFrom(_, _)
UpdateForceCallsFrom(regs, i) ==
    IF i > Len(regs)
    THEN << >>
    ELSE <<[fg |-> regs[i].fg, particle |-> regs[i].particle]>>
            \o UpdateForceCallsFrom(regs, i + 1)

----------------------------------------------------------------------------
(* Bounds and the values the calls draw their arguments from *)

MaxOps == 3
MaxRegs == 2
MaxFrames == 2
MaxRegistrySize == 3
MaxMass == 100

Durations == {R(-1), R(0), R(1), R(2)}
GeneratorDurations == {R(0), R(1)}
FrameDurations == {R(0), R(1)}
Forces == {Vec(0, 4, 0), Vec(3, 0, 4)}
MassArgs == {R(-1), R(0), R(2)}
InverseMassArgs == {R(-1), R(0), R(2)}

\* the generator objects a caller has constructed, by identity
GeneratorObjects ==
    [gravity |-> NewGravityGenerator(Vec(0, -10, 0)),
     gravity2 |-> NewGravityGenerator(Vec(0, -10, 0)),
     drag |-> NewDragGenerator(R(1), R(2)),
     uplift |-> NewUpliftForceGenerator(Vec(0, 0, 0), R(10), R(5)),
     uplift2 |-> NewUpliftForceGenerator(Vec(0, 2, 0), R(5), R(4)),
     airbrake |-> NewAirBrakeForceGenerator(R(1), R(1), R(2), R(2))]

\* the constructor calls a caller makes: function, arguments
ConstructorCalls ==
    LET Args == {<<Vec(1, 0, 0), Vec(0, 1, 0)>>, <<Vec(3, 0, 4), Vec(3, 0, 4)>>,
                 <<Vec(0, 0, 0), Vec(0, 0, 0)>>}
        Masses == {<<"NewParticleMass", R(0)>>, <<"NewParticleMass", R(2)>>,
                   <<"NewParticleInverseMass", R(-1)>>,
                   <<"NewParticleInverseMass", R(2)>>}
    IN  {[fn |-> m[1], position |-> a[1], velocity |-> a[2],
          acceleration |-> Vec(0, -2, 0), damping |-> Frac(1, 2), arg |-> m[2]] :
            a \in Args, m \in Masses}

Construct(c) ==
    IF c.fn = "NewParticleMass"
    THEN NewParticleMass(c.position, c.velocity, c.acceleration, c.damping, c.arg)
    ELSE NewParticleInverseMass(c.position, c.velocity, c.acceleration,
                                c.damping, c.arg)

----------------------------------------------------------------------------
(* State *)

VARIABLES
    particles,      \* the Particle objects: id -> fields
    generators,     \* the ForceGenerator objects: id -> configuration
    registrations,  \* ForceRegistry.registrations
    built,          \* history: the constructor call that made each particle
    last,           \* history: the last call, what it returned, the state before
    added,          \* history: per particle, the accumulator when it was last set
                    \* by anything but Particle.AddForce, and the forces added since
    frame,          \* the caller's frame loop: phase, duration, particles to integrate
    nops            \* number of calls made

vars == <<particles, generators, registrations, built, last, added, frame, nops>>

NoVector == ZeroVector

\* the number of registrations the call before this one cleared, -1 when the
\* call before was not Clear
Cleared == IF last.op = "Clear" THEN Len(last.preRegs) ELSE -1

Call(op, id, fg, arg, force, err) ==
    [op |-> op, id |-> id, fg |-> fg, arg |-> arg, force |-> force, err |-> err,
     pre |-> particles, preRegs |-> registrations, cleared |-> Cleared,
     calls |-> << >>]

NoFrame ==
    [phase |-> "idle", duration |-> Zero, todo |-> {}, count |-> 0,
     start |-> << >>]

\* the accumulators were set by something other than Particle.AddForce
ResetAdded(ps) ==
    [id \in DOMAIN ps |-> [base |-> ps[id].forceAccumulator, forces |-> << >>]]

InitWith(ids, calls) ==
    /\ built \in [ids -> calls]
    /\ particles = [id \in ids |-> Construct(built[id])]
    /\ generators = GeneratorObjects
    /\ registrations = << >>
    /\ last = [op |-> "none", id |-> "-", fg |-> "-", arg |-> Zero,
               force |-> NoVector, err |-> Nil, pre |-> particles,
               preRegs |-> << >>, cleared |-> -1, calls |-> << >>]
    /\ added = ResetAdded(particles)
    /\ frame = NoFrame
    /\ nops = 0

Init == InitWith({"p1"}, ConstructorCalls)

Step == nops < MaxOps /\ nops' = nops + 1

\* math.Sqrt in calcDistance has a rational result
DistanceRational(fg, id) ==
    generators[fg].kind = UpliftKind =>
        HasSqrt(calcDistanceSquared(generators[fg], particles[id]))

DistancesRational ==
    \A i \in 1..Len(registrations) :
        DistanceRational(registrations[i].fg, registrations[i].particle)

\* math.Sqrt in Magnitude has a rational result
MagnitudeRational(fg, id) ==
    generators[fg].kind = DragKind =>
        HasSqrt(lengthSquared(particles[id].Velocity))

MagnitudesRational ==
    \A i \in 1..Len(registrations) :
        MagnitudeRational(registrations[i].fg, registrations[i].particle)

----------------------------------------------------------------------------
(* Calls *)

CallSetMass(id, mass) ==
    /\ particles' = [particles EXCEPT ![id] = SetMass(@, mass)]
    /\ last' = Call("SetMass", id, "-", mass, NoVector, Nil)
    /\ UNCHANGED <<generators, registrations, built, added>>

CallSetInverseMass(id, inverseMass) ==
    /\ particles' = [particles EXCEPT ![id] = SetInverseMass(@, inverseMass)]
    /\ last' = Call("SetInverseMass", id, "-", inverseMass, NoVector, Nil)
    /\ UNCHANGED <<generators, registrations, built, added>>

CallAddForce(id, force) ==
    /\ particles' = [particles EXCEPT ![id] = AddForce(@, force)]
    /\ last' = Call("AddForce", id, "-", Zero, force, Nil)
    /\ added' = [added EXCEPT ![id].forces = Append(@, force)]
    /\ UNCHANGED <<generators, registrations, built>>

CallClearForces(id) ==
    /\ particles' = [particles EXCEPT ![id] = ClearForces(@)]
    /\ last' = Call("ClearForces", id, "-", Zero, NoVector, Nil)
    /\ added' = ResetAdded(particles')
    /\ UNCHANGED <<generators, registrations, built>>

CallIntegrate(id, duration) ==
    /\ particles' = [particles EXCEPT ![id] = Integrate(@, duration)]
    /\ last' = Call("Integrate", id, "-", duration, NoVector,
                    IntegrateError(particles[id], duration))
    /\ added' = IF IntegrateError(particles[id], duration) = Nil
                THEN ResetAdded(particles') ELSE added
    /\ UNCHANGED <<generators, registrations, built>>

\* fg.UpdateForce(particle, duration), called directly
CallUpdateForce(fg, id, duration) ==
    /\ DistanceRational(fg, id)
    /\ MagnitudeRational(fg, id)
    /\ particles' = [particles EXCEPT ![id] = UpdateForce(generators[fg], @, duration)]
    /\ last' = Call("UpdateForce", id, fg, duration, NoVector, Nil)
    /\ added' = ResetAdded(particles')
    /\ UNCHANGED <<generators, registrations, built>>

CallRegistryAddForce(id, fg) ==
    /\ Len(registrations) < MaxRegs
    /\ registrations' = RegistryAddForce(registrations, id, fg)
    /\ last' = Call("Registry.AddForce", id, fg, Zero, NoVector, Nil)
    /\ UNCHANGED <<particles, generators, built, added>>

CallRemoveForce(id, fg) ==
    /\ registrations' = RemoveForce(registrations, id, fg)
    /\ last' = Call("RemoveForce", id, fg, Zero, NoVector, Nil)
    /\ UNCHANGED <<particles, generators, built, added>>

CallClear ==
    /\ registrations' = Clear(registrations)
    /\ last' = Call("Clear", "-", "-", Zero, NoVector, Nil)
    /\ UNCHANGED <<particles, generators, built, added>>

CallUpdateForces(duration) ==
    /\ DistancesRational
    /\ MagnitudesRational
    /\ particles' = UpdateForces(registrations, generators, particles, duration)
    /\ last' = [Call("UpdateForces", "-", "-", duration, NoVector, Nil)
                    EXCEPT !.calls = UpdateForceCallsFrom(registrations, 1)]
    /\ added' = ResetAdded(particles')
    /\ UNCHANGED <<generators, registrations, built>>

----------------------------------------------------------------------------
(* The particle and its forces, called in any order *)

DoSetMass == \E id \in DOMAIN particles, m \in MassArgs :
    Step /\ CallSetMass(id, m) /\ UNCHANGED frame
DoSetInverseMass == \E id \in DOMAIN particles, w \in InverseMassArgs :
    Step /\ CallSetInverseMass(id, w) /\ UNCHANGED frame
DoAddForce == \E id \in DOMAIN particles, f \in Forces :
    Step /\ CallAddForce(id, f) /\ UNCHANGED frame
DoClearForces == \E id \in DOMAIN particles :
    Step /\ CallClearForces(id) /\ UNCHANGED frame
DoIntegrate == \E id \in DOMAIN particles, d \in Durations :
    Step /\ CallIntegrate(id, d) /\ UNCHANGED frame
DoUpdateForce ==
    \E fg \in DOMAIN generators, id \in DOMAIN particles, d \in GeneratorDurations :
        Step /\ CallUpdateForce(fg, id, d) /\ UNCHANGED frame
DoRegistryAddForce == \E id \in DOMAIN particles, fg \in DOMAIN generators :
    Step /\ CallRegistryAddForce(id, fg) /\ UNCHANGED frame
DoUpdateForces == \E d \in Durations :
    Step /\ CallUpdateForces(d) /\ UNCHANGED frame

Next ==
    \/ DoSetMass
    \/ DoSetInverseMass
    \/ DoAddForce
    \/ DoClearForces
    \/ DoIntegrate
    \/ DoUpdateForce
    \/ DoRegistryAddForce
    \/ DoUpdateForces

Spec == Init /\ [][Next]_vars

----------------------------------------------------------------------------
(* The frame loop of a caller: UpdateForces(dt), then Integrate(dt) on every *)
(* registered particle                                                      *)

Registered == {registrations[i].particle : i \in 1..Len(registrations)}

FrameInit ==
    InitWith({"p1", "p2"}, {c \in ConstructorCalls : c.position = Vec(1, 0, 0)})

FrameRegister ==
    \E id \in DOMAIN particles, fg \in DOMAIN generators :
        /\ frame.phase = "idle"
        /\ frame.count = 0
        /\ CallRegistryAddForce(id, fg)
        /\ UNCHANGED <<frame, nops>>

FrameUpdateForces ==
    \E d \in FrameDurations :
        /\ frame.phase = "idle"
        /\ frame.count < MaxFrames
        /\ CallUpdateForces(d)
        /\ frame' = [phase |-> IF Registered = {} THEN "idle" ELSE "integrate",
                     duration |-> d, todo |-> Registered,
                     count |-> IF Registered = {} THEN frame.count + 1
                               ELSE frame.count,
                     start |-> particles]
        /\ UNCHANGED nops

FrameIntegrate ==
    \E id \in frame.todo :
        /\ frame.phase = "integrate"
        /\ CallIntegrate(id, frame.duration)
        /\ frame' = [frame EXCEPT
                        !.todo = @ \ {id},
                        !.phase = IF frame.todo = {id} THEN "idle" ELSE @,
                        !.count = IF frame.todo = {id} THEN @ + 1 ELSE @]
        /\ UNCHANGED nops

FrameNext == FrameRegister \/ FrameUpdateForces \/ FrameIntegrate

FrameSpec == FrameInit /\ [][FrameNext]_vars

----------------------------------------------------------------------------
(* The frame loop with its two steps in the wrong order: Integrate(dt) on   *)
(* every registered particle, then UpdateForces(dt).  frame.start is the    *)
(* state before the UpdateForces of the frame before                        *)

MisorderedInit ==
    InitWith({"p1", "p2"},
             {c \in ConstructorCalls :
                 c.fn = "NewParticleMass" /\ c.position = Vec(1, 0, 0)})

MisorderedRegister ==
    \E id \in DOMAIN particles, fg \in DOMAIN generators :
        /\ frame.phase = "idle"
        /\ frame.count = 0
        /\ CallRegistryAddForce(id, fg)
        /\ UNCHANGED <<frame, nops>>

\* the first Integrate of a frame fixes the frame's duration
MisorderedIntegrate ==
    \E d \in FrameDurations :
        \E id \in IF frame.phase = "idle" THEN Registered ELSE frame.todo :
            /\ \/ frame.phase = "idle" /\ frame.count < MaxFrames
               \/ frame.phase = "integrate" /\ d = frame.duration
            /\ CallIntegrate(id, d)
            /\ LET todo == (IF frame.phase = "idle" THEN Registered
                                                     ELSE frame.todo) \ {id}
               IN  frame' = [frame EXCEPT
                                !.phase = IF todo = {} THEN "update" ELSE "integrate",
                                !.duration = d,
                                !.todo = todo]
            /\ UNCHANGED nops

MisorderedUpdateForces ==
    /\ frame.phase = "update"
    /\ CallUpdateForces(frame.duration)
    /\ frame' = [frame EXCEPT !.phase = "idle", !.count = @ + 1,
                               !.start = particles]
    /\ UNCHANGED nops

MisorderedNext ==
    MisorderedRegister \/ MisorderedIntegrate \/ MisorderedUpdateForces

MisorderedSpec == MisorderedInit /\ [][MisorderedNext]_vars

----------------------------------------------------------------------------
(* The registry edited freely over two particles; the calls that grow the
   accumulators are counted *)

\* the pairs the caller registers, and the pairs it asks to remove
RegistryPairs ==
    {<<"p1", "gravity">>, <<"p1", "gravity2">>, <<"p2", "gravity">>}
RemovedPairs == {"p1", "p2"} \X {"gravity", "gravity2"}

RegistryInit ==
    InitWith({"p1", "p2"},
             {c \in ConstructorCalls :
                 c.fn = "NewParticleMass" /\ c.position = Vec(3, 0, 4)})

RegistryAdd ==
    \E pair \in RegistryPairs :
        /\ Len(registrations) < MaxRegistrySize
        /\ registrations' = RegistryAddForce(registrations, pair[1], pair[2])
        /\ last' = Call("Registry.AddForce", pair[1], pair[2], Zero, NoVector, Nil)
        /\ UNCHANGED <<particles, generators, built, added, frame, nops>>

RegistryRemove ==
    \E pair \in RemovedPairs :
        CallRemoveForce(pair[1], pair[2]) /\ UNCHANGED <<frame, nops>>

RegistryClear == CallClear /\ UNCHANGED <<frame, nops>>

RegistryUpdateForces ==
    \E d \in GeneratorDurations :
        Step /\ CallUpdateForces(d) /\ UNCHANGED frame

RegistryNext ==
    \/ RegistryAdd
    \/ RegistryRemove
    \/ RegistryClear
    \/ RegistryUpdateForces

RegistrySpec == RegistryInit /\ [][RegistryNext]_vars

----------------------------------------------------------------------------
(* The generators called directly on two particles that also move *)

GeneratorInit ==
    InitWith({"p1", "p2"}, {c \in ConstructorCalls : c.fn = "NewParticleMass"})

GeneratorUpdateForce ==
    \E fg \in DOMAIN generators, id \in DOMAIN particles, d \in GeneratorDurations :
        Step /\ CallUpdateForce(fg, id, d) /\ UNCHANGED frame

GeneratorIntegrate ==
    \E id \in DOMAIN particles :
        Step /\ CallIntegrate(id, One) /\ UNCHANGED frame

GeneratorNext == GeneratorUpdateForce \/ GeneratorIntegrate

GeneratorSpec == GeneratorInit /\ [][GeneratorNext]_vars

----------------------------------------------------------------------------
(* Two particles built alike, without constant acceleration: the first is
   integrated over a and then over b, the second once over a + b *)

DampingDurations == {R(1), R(2), R(3)}

DampingCalls ==
    {[fn |-> "NewParticleMass", position |-> Vec(1, 0, 0), velocity |-> v,
      acceleration |-> ZeroVector, damping |-> d, arg |-> m] :
        v \in {Vec(0, 1, 0), Vec(3, 0, 4), Vec(-2, 1, 0)},
        d \in {Frac(1, 2), R(1), R(2)},
        m \in {R(2), Frac(1, 2)}}

DampingInit ==
    /\ InitWith({"p1", "p2"}, DampingCalls)
    /\ built["p1"] = built["p2"]

DampingFirst ==
    \E a \in DampingDurations :
        /\ frame.phase = "idle"
        /\ CallIntegrate("p1", a)
        /\ frame' = [frame EXCEPT !.phase = "first", !.duration = a,
                                  !.start = particles]
        /\ UNCHANGED nops

DampingSecond ==
    \E b \in DampingDurations :
        /\ frame.phase = "first"
        /\ CallIntegrate("p1", b)
        /\ frame' = [frame EXCEPT !.phase = "second",
                                  !.duration = RAdd(frame.duration, b)]
        /\ UNCHANGED nops

DampingWhole ==
    /\ frame.phase = "second"
    /\ CallIntegrate("p2", frame.duration)
    /\ frame' = [frame EXCEPT !.phase = "whole"]
    /\ UNCHANGED nops

DampingNext == DampingFirst \/ DampingSecond \/ DampingWhole

DampingSpec == DampingInit /\ [][DampingNext]_vars

----------------------------------------------------------------------------
(* Two particles built alike but for the constant acceleration: p1 has the
   acceleration a and the gravity generator registered, p2 has the acceleration
   a + g and no registration.  Each frame is UpdateForces(dt), Integrate(dt)
   on p1, Integrate(dt) on p2 *)

GravityCalls ==
    {[fn |-> m[1], position |-> Vec(1, 0, 0), velocity |-> v,
      acceleration |-> a, damping |-> d, arg |-> m[2]] :
        v \in {Vec(0, 1, 0), Vec(3, 0, 4)},
        a \in {Vec(0, -2, 0), Vec(1, 0, 0)},
        d \in {Frac(1, 2), R(1)},
        m \in {<<"NewParticleMass", R(0)>>, <<"NewParticleMass", R(1)>>,
                <<"NewParticleMass", R(2)>>, <<"NewParticleMass", R(3)>>,
                <<"NewParticleMass", Frac(1, 2)>>,
                <<"NewParticleInverseMass", R(3)>>}}

\* the constructor call of p2 for the call c of p1
GravityTwin(c) ==
    [c EXCEPT !.acceleration = Add(@, GeneratorObjects.gravity.Gravity)]

GravityInit ==
    /\ InitWith({"p1", "p2"}, GravityCalls \cup {GravityTwin(c) : c \in GravityCalls})
    /\ built["p1"] \in GravityCalls
    /\ built["p2"] = GravityTwin(built["p1"])

GravityRegister ==
    /\ frame.phase = "idle"
    /\ registrations = << >>
    /\ CallRegistryAddForce("p1", "gravity")
    /\ UNCHANGED <<frame, nops>>

GravityUpdateForces ==
    \E d \in Durations :
        /\ frame.phase = "idle"
        /\ registrations # << >>
        /\ frame.count < MaxFrames
        /\ CallUpdateForces(d)
        /\ frame' = [frame EXCEPT !.phase = "integrate", !.duration = d,
                                  !.start = particles]
        /\ UNCHANGED nops

GravityIntegrate ==
    /\ frame.phase = "integrate"
    /\ CallIntegrate("p1", frame.duration)
    /\ frame' = [frame EXCEPT !.phase = "twin"]
    /\ UNCHANGED nops

GravityTwinIntegrate ==
    /\ frame.phase = "twin"
    /\ CallIntegrate("p2", frame.duration)
    /\ frame' = [frame EXCEPT !.phase = "idle", !.count = @ + 1]
    /\ UNCHANGED nops

GravityNext ==
    \/ GravityRegister
    \/ GravityUpdateForces
    \/ GravityIntegrate
    \/ GravityTwinIntegrate

GravitySpec == GravityInit /\ [][GravityNext]_vars

----------------------------------------------------------------------------
(* The mass of one particle set and read in float64 *)

\* the masses and inverse masses passed: the integers from -1 to MaxMass
Float64MassArgs == {Float64(n) : n \in -1..MaxMass}

Float64Literal ==
    [ParticleLiteral(ZeroVector, ZeroVector, ZeroVector, One)
        EXCEPT !.inverseMass = Float64Zero]

Float64Call(op, arg) ==
    [op |-> op, id |-> "p1", fg |-> "-", arg |-> arg, force |-> NoVector,
     err |-> Nil, pre |-> << >>, preRegs |-> << >>, cleared |-> -1,
     calls |-> << >>]

\* NewParticleMass(.., 0)
MassInit ==
    \E mass \in {Float64Zero} :
        /\ built = [id \in {"p1"} |-> [fn |-> "NewParticleMass", arg |-> mass]]
        /\ particles = [id \in {"p1"} |-> Float64SetMass(Float64Literal, mass)]
        /\ generators = GeneratorObjects
        /\ registrations = << >>
        /\ last = Float64Call("SetMass", mass)
        /\ added = ResetAdded(particles)
        /\ frame = NoFrame
        /\ nops = 0

MassSetMass ==
    \E mass \in Float64MassArgs :
        /\ particles' = [particles EXCEPT !["p1"] = Float64SetMass(@, mass)]
        /\ last' = Float64Call("SetMass", mass)
        /\ UNCHANGED <<generators, registrations, built, added, frame, nops>>

MassSetInverseMass ==
    \E inverseMass \in Float64MassArgs :
        /\ particles' = [particles EXCEPT
                            !["p1"] = Float64SetInverseMass(@, inverseMass)]
        /\ last' = Float64Call("SetInverseMass", inverseMass)
        /\ UNCHANGED <<generators, registrations, built, added, frame, nops>>

MassNext == MassSetMass \/ MassSetInverseMass

MassSpec == MassInit /\ [][MassNext]_vars

----------------------------------------------------------------------------
(* Properties of Integrate *)

LastIntegrate == last.op = "Integrate"
Pre == last.pre[last.id]
Post == particles[last.id]
NonZero(v) == v # ZeroVector

\* C1: Integrate on a particle whose inverseMass is 0 returns the infinite-mass
\* error, whatever the duration and the accumulator, and leaves position and
\* velocity as they were.
C1_InfiniteMassIntegrate ==
    (LastIntegrate /\ Pre.inverseMass = Zero) =>
        /\ last.err = ErrInfiniteMass
        /\ Post.Position = Pre.Position
        /\ Post.Velocity = Pre.Velocity

\* an immovable particle with forces accumulated was integrated over a
\* positive duration
C1_Witness ==
    /\ LastIntegrate
    /\ Pre.inverseMass = Zero
    /\ RLt(Zero, last.arg)
    /\ NonZero(Pre.forceAccumulator)
    /\ NonZero(Pre.Velocity)

\* C2: Integrate on a finite-mass particle with a duration <= 0 returns the
\* invalid-duration error and does not integrate.
C2_NonPositiveDuration ==
    (LastIntegrate /\ RLt(Zero, Pre.inverseMass) /\ RLe(last.arg, Zero)) =>
        /\ last.err = ErrNegativeDuration
        /\ Post = Pre

\* a finite-mass particle was integrated over duration 0
C2_Witness ==
    /\ LastIntegrate
    /\ RLt(Zero, Pre.inverseMass)
    /\ last.arg = Zero
    /\ NonZero(Pre.Velocity)

\* C3: when Integrate returns an error, position, velocity and damping are
\* untouched and the force accumulator keeps its value.
C3_FailedIntegrateFrame ==
    (LastIntegrate /\ last.err # Nil) =>
        /\ Post.Position = Pre.Position
        /\ Post.Velocity = Pre.Velocity
        /\ Post.Damping = Pre.Damping
        /\ Post.forceAccumulator = Pre.forceAccumulator

\* Integrate failed on a moving particle with forces accumulated
C3_Witness ==
    /\ LastIntegrate
    /\ last.err # Nil
    /\ NonZero(Pre.forceAccumulator)
    /\ NonZero(Pre.Velocity)

\* the velocity component the claim gives: (v + (a + F * w) * dt) * damping^dt
C4_Velocity(v, a, f, w, damping, dt) ==
    RMul(RAdd(v, RMul(RAdd(a, RMul(f, w)), dt)), Pow(damping, dt))

\* the particle of the end-to-end scenario
C4_Example ==
    NewParticleMass(Vec(1, 0, 0), Vec(0, 1, 0),
                    NewVector3(Zero, Frac(-98, 10), Zero), Frac(99, 100), R(1))

\* C4: a successful Integrate(dt) yields pos' = pos + vel * dt from the velocity
\* before the call, and vel' = (vel + (acc + F * invMass) * dt) * damping^dt;
\* the scenario particle gets position (1,1,0) and velocity (0,-8.712,0).
C4_IntegrateStep ==
    /\ (LastIntegrate /\ last.err = Nil) =>
          LET dt == last.arg
              w == Pre.inverseMass
              F == Pre.forceAccumulator
          IN  /\ Post.Position.X = RAdd(Pre.Position.X, RMul(Pre.Velocity.X, dt))
              /\ Post.Position.Y = RAdd(Pre.Position.Y, RMul(Pre.Velocity.Y, dt))
              /\ Post.Position.Z = RAdd(Pre.Position.Z, RMul(Pre.Velocity.Z, dt))
              /\ Post.Velocity.X = C4_Velocity(Pre.Velocity.X, Pre.Acceleration.X,
                                               F.X, w, Pre.Damping, dt)
              /\ Post.Velocity.Y = C4_Velocity(Pre.Velocity.Y, Pre.Acceleration.Y,
                                               F.Y, w, Pre.Damping, dt)
              /\ Post.Velocity.Z = C4_Velocity(Pre.Velocity.Z, Pre.Acceleration.Z,
                                               F.Z, w, Pre.Damping, dt)
    /\ IntegrateError(C4_Example, R(1)) = Nil
    /\ Integrate(C4_Example, R(1)).Position = Vec(1, 1, 0)
    /\ Integrate(C4_Example, R(1)).Velocity =
          NewVector3(Zero, Frac(-8712, 1000), Zero)

\* a moving particle with forces accumulated was integrated over 2 seconds:
\* the new velocity differs from the old one, and damping^dt from damping
C4_Witness ==
    /\ LastIntegrate
    /\ last.err = Nil
    /\ last.arg = R(2)
    /\ NonZero(Pre.forceAccumulator)
    /\ NonZero(Pre.Velocity)
    /\ Post.Velocity # Pre.Velocity
    /\ Pre.Damping # One

\* C5: after an Integrate that returns no error the accumulator is zero.
C5_AccumulatorCleared ==
    (LastIntegrate /\ last.err = Nil) => Post.forceAccumulator = ZeroVector

\* Integrate succeeded on a particle that had forces accumulated
C5_Witness ==
    /\ LastIntegrate
    /\ last.err = Nil
    /\ NonZero(Pre.forceAccumulator)

\* C6: a frame of duration 0, UpdateForces(0) then Integrate(0) on every
\* registered particle, leaves position, velocity and accumulator of each
\* registered particle as they were before the frame.
C6_ZeroFrameNoOp ==
    (frame.phase = "idle" /\ frame.count > 0 /\ frame.duration = Zero) =>
        \A id \in Registered :
            /\ particles[id].Position = frame.start[id].Position
            /\ particles[id].Velocity = frame.start[id].Velocity
            /\ particles[id].forceAccumulator = frame.start[id].forceAccumulator

----------------------------------------------------------------------------
(* Properties of the mass setters and of AddForce *)

\* what a setter or constructor given x must store: 0 for x <= 0, and for
\* x > 0 the inverse of x (byMass) or x itself
C7_Stored(w, x, byMass) ==
    IF RLe(x, Zero) THEN w = Zero
    ELSE IF byMass THEN RMul(w, x) = One ELSE w = x

\* C7: inverseMass >= 0 in every reachable state; the constructors and setters
\* store 0 for a non-positive argument, 1/m for SetMass(m > 0), w for
\* SetInverseMass(w > 0); no other operation changes inverseMass.
C7_InverseMassNonNegative ==
    /\ \A id \in DOMAIN particles : RLe(Zero, particles[id].inverseMass)
    /\ last.op = "none" =>
          \A id \in DOMAIN particles :
              C7_Stored(particles[id].inverseMass, built[id].arg,
                        built[id].fn = "NewParticleMass")
    /\ last.op = "SetMass" => C7_Stored(Post.inverseMass, last.arg, TRUE)
    /\ last.op = "SetInverseMass" => C7_Stored(Post.inverseMass, last.arg, FALSE)
    /\ last.op \notin {"none", "SetMass", "SetInverseMass"} =>
          \A id \in DOMAIN particles :
              particles[id].inverseMass = last.pre[id].inverseMass

\* SetMass with a negative mass made a finite-mass particle immovable
C7_Witness ==
    /\ last.op = "SetMass"
    /\ RLt(last.arg, Zero)
    /\ RLt(Zero, Pre.inverseMass)
    /\ Post.inverseMass = Zero

C8_Plus(v, s) ==
    [X |-> RAdd(v.X, s.X), Y |-> RAdd(v.Y, s.Y), Z |-> RAdd(v.Z, s.Z)]

\* f1 + (f2 + (... + fn)): the forces summed first, from the right
RECURSIVE C8_Sum(_)
C8_Sum(fs) == IF fs = << >> THEN ZeroVector ELSE C8_Plus(Head(fs), C8_Sum(Tail(fs)))

\* ((v + fn) + ...) + f1: the forces added in the opposite order of the calls
RECURSIVE C8_AddReversed(_, _)
C8_AddReversed(v, fs) ==
    IF fs = << >> THEN v
    ELSE C8_AddReversed(C8_Plus(v, fs[Len(fs)]), SubSeq(fs, 1, Len(fs) - 1))

----------------------------------------------------------------------------
(* Properties of the generators *)

LastUpdateForce(kind) ==
    last.op = "UpdateForce" /\ generators[last.fg].kind = kind

\* C9: GravityGenerator.UpdateForce on a finite-mass particle of mass m adds
\* g * m to the accumulator; on an infinite-mass particle it adds nothing.
C9_GravityForce ==
    LastUpdateForce(GravityKind) =>
        LET g == generators[last.fg].Gravity
            old == Pre.forceAccumulator
            new == Post.forceAccumulator
        IN  IF Pre.inverseMass = Zero
            THEN new = old
            ELSE LET m == RDiv(One, Pre.inverseMass)
                 IN  /\ new.X = RAdd(old.X, RMul(g.X, m))
                     /\ new.Y = RAdd(old.Y, RMul(g.Y, m))
                     /\ new.Z = RAdd(old.Z, RMul(g.Z, m))

\* gravity acted on a particle of finite mass other than 1 whose accumulator
\* was not empty
C9_Witness ==
    /\ LastUpdateForce(GravityKind)
    /\ RLt(Zero, Pre.inverseMass)
    /\ Pre.inverseMass # One
    /\ NonZero(Pre.forceAccumulator)
    /\ Post.forceAccumulator # Pre.forceAccumulator

\* C10: UpliftForceGenerator.UpdateForce adds (0, F * (1 - d/R), 0) when the
\* X-Z distance d of the particle from the centre is within R and leaves the
\* accumulator unchanged when d >= R; Y plays no part and only the Y component
\* of the accumulator changes.
C10_UpliftForce ==
    LastUpdateForce(UpliftKind) =>
        LET u == generators[last.fg]
            dx == RSub(Pre.Position.X, u.Center.X)
            dz == RSub(Pre.Position.Z, u.Center.Z)
            d == Sqrt(RAdd(RMul(dx, dx), RMul(dz, dz)))
            old == Pre.forceAccumulator
            new == Post.forceAccumulator
        IN  /\ new.X = old.X
            /\ new.Z = old.Z
            /\ IF RLt(d, u.Radius)
               THEN new.Y = RAdd(old.Y, RMul(u.Force, RSub(One, RDiv(d, u.Radius))))
               ELSE new.Y = old.Y

\* the example: centre (0,0,0), R = 10, F = 5, particle at (3,0,4) gets (0, 2.5, 0)
C10_Witness ==
    /\ LastUpdateForce(UpliftKind)
    /\ generators[last.fg] = NewUpliftForceGenerator(Vec(0, 0, 0), R(10), R(5))
    /\ Pre.Position = Vec(3, 0, 4)
    /\ Post.forceAccumulator =
          C8_Plus(Pre.forceAccumulator, NewVector3(Zero, Frac(5, 2), Zero))

C12_Contribution ==
    UpdateForce(generators[last.fg], ClearForces(Pre), last.arg).forceAccumulator

C12_GeneratorsOnlyAdd ==
    last.op = "UpdateForce" =>
        /\ Post.forceAccumulator = C8_Plus(Pre.forceAccumulator, C12_Contribution)
        /\ Post.Position = Pre.Position
        /\ Post.Velocity = Pre.Velocity
        /\ Post.Acceleration = Pre.Acceleration
        /\ Post.Damping = Pre.Damping
        /\ Post.inverseMass = Pre.inverseMass
        /\ \A id \in DOMAIN particles \ {last.id} : particles[id] = last.pre[id]
        /\ registrations = last.preRegs
        /\ generators[last.fg].kind = AirBrakeKind => Post = Pre

\* a generator added a force to an accumulator that was not empty, while the
\* other particle had forces accumulated too
C12_Witness ==
    /\ last.op = "UpdateForce"
    /\ NonZero(Pre.forceAccumulator)
    /\ NonZero(C12_Contribution)
    /\ NonZero(Pre.Velocity)
    /\ \E id \in DOMAIN particles \ {last.id} :
            NonZero(particles[id].forceAccumulator)

----------------------------------------------------------------------------
(* Properties of the registry *)

LastPair == [particle |-> last.id, fg |-> last.fg]
Occurrences(regs, pair) == Cardinality({i \in 1..Len(regs) : regs[i] = pair})

\* C13: ForceRegistry.AddForce appends exactly one registration at the end,
\* also when the same pair is registered already, so a pair added k times is
\* registered k times, and one UpdateForces over k registrations of one pair
\* applies the generator k times to the particle.
C13_AddForceAppends ==
    /\ last.op = "Registry.AddForce" =>
          /\ Len(registrations) = Len(last.preRegs) + 1
          /\ registrations[Len(registrations)] = LastPair
          /\ \A i \in 1..Len(last.preRegs) : registrations[i] = last.preRegs[i]
          /\ Occurrences(registrations, LastPair) =
                Occurrences(last.preRegs, LastPair) + 1
          /\ particles = last.pre
    /\ (/\ last.op = "UpdateForces"
        /\ registrations # << >>
        /\ \A i \in 1..Len(registrations) : registrations[i] = registrations[1]) =>
          LET reg == registrations[1]
              before == last.pre[reg.particle]
              once == UpdateForce(generators[reg.fg], ClearForces(before),
                                  last.arg).forceAccumulator
              k == Len(registrations)
          IN  particles[reg.particle].forceAccumulator =
                NewVector3(RAdd(before.forceAccumulator.X, RMul(R(k), once.X)),
                           RAdd(before.forceAccumulator.Y, RMul(R(k), once.Y)),
                           RAdd(before.forceAccumulator.Z, RMul(R(k), once.Z)))

\* UpdateForces ran over a registry holding the same pair three times and
\* the particle received the generator's force three times
C13_Witness ==
    /\ last.op = "UpdateForces"
    /\ Len(registrations) = 3
    /\ \A i \in 1..3 : registrations[i] = registrations[1]
    /\ particles[registrations[1].particle].forceAccumulator #
          last.pre[registrations[1].particle].forceAccumulator

\* the place of the first registration of the pair, in insertion order
FirstMatch(regs, pair) ==
    CHOOSE i \in 1..Len(regs) :
        regs[i] = pair /\ \A j \in 1..(i - 1) : regs[j] # pair

\* C14: RemoveForce(p, g), when a registration of p with g exists, removes
\* exactly one registration: the first in insertion order whose particle and
\* generator are the same objects. Later duplicates of the pair,
\* registrations of another generator object with the same configuration and
\* all other registrations stay, in their order.
C14_RemoveFirstMatch ==
    (last.op = "RemoveForce" /\ Occurrences(last.preRegs, LastPair) >= 1) =>
        LET first == FirstMatch(last.preRegs, LastPair)
        IN  /\ Len(registrations) = Len(last.preRegs) - 1
            /\ \A j \in 1..(first - 1) : registrations[j] = last.preRegs[j]
            /\ \A j \in first..Len(registrations) :
                    registrations[j] = last.preRegs[j + 1]
            /\ Occurrences(registrations, LastPair) =
                    Occurrences(last.preRegs, LastPair) - 1
            /\ particles = last.pre

\* the pair was registered twice, behind a registration of the same particle
\* with the other gravity generator of the same configuration; the removal
\* left that registration and the later duplicate
C14_Witness ==
    /\ last.op = "RemoveForce"
    /\ Len(last.preRegs) = 3
    /\ Occurrences(last.preRegs, LastPair) = 2
    /\ last.preRegs[1].particle = last.id
    /\ last.preRegs[1].fg # last.fg
    /\ generators[last.preRegs[1].fg] = generators[last.fg]
    /\ registrations = <<last.preRegs[1], LastPair>>

\* C15: RemoveForce on a pair that is not registered (the registry is empty,
\* or only the particle or only the generator of a registration is the same)
\* leaves the registrations as they were and reports no error.
C15_RemoveAbsentPair ==
    (last.op = "RemoveForce" /\ Occurrences(last.preRegs, LastPair) = 0) =>
        /\ registrations = last.preRegs
        /\ particles = last.pre
        /\ last.err = Nil

\* the pair was not registered, but its particle was registered with another
\* generator and its generator with another particle
C15_Witness ==
    /\ last.op = "RemoveForce"
    /\ Occurrences(last.preRegs, LastPair) = 0
    /\ \E i \in 1..Len(last.preRegs) :
            last.preRegs[i].particle = last.id /\ last.preRegs[i].fg # last.fg
    /\ \E i \in 1..Len(last.preRegs) :
            last.preRegs[i].particle # last.id /\ last.preRegs[i].fg = last.fg
    /\ registrations = last.preRegs

\* C16: Clear leaves the registry with no registration, whatever it held, so
\* that an UpdateForces that follows changes no particle; Clear changes no
\* particle and no generator, and AddForce works on the cleared registry.
C16_ClearEmpties ==
    /\ generators = GeneratorObjects
    /\ last.op = "Clear" =>
          /\ registrations = << >>
          /\ particles = last.pre
    /\ (last.op = "UpdateForces" /\ last.cleared >= 0) =>
          /\ particles = last.pre
          /\ registrations = << >>
    /\ (last.op = "Registry.AddForce" /\ last.cleared >= 0) =>
          registrations = <<LastPair>>

\* three registrations on particles of finite mass were cleared and the
\* UpdateForces that followed found nothing to apply
C16_Witness ==
    /\ last.op = "UpdateForces"
    /\ last.cleared = 3
    /\ \A id \in DOMAIN particles :
          /\ HasFiniteMass(particles[id])
          /\ NonZero(particles[id].forceAccumulator)

\* what registration i of the registry before the call contributes: the force
\* its generator adds to an empty accumulator of its particle
C17_Contribution(i) ==
    LET reg == last.preRegs[i]
    IN  UpdateForce(generators[reg.fg], ClearForces(last.pre[reg.particle]),
                    last.arg).forceAccumulator

\* the contributions of the registrations i, i-1, .., 1 that target particle
\* id, summed from the last one down
RECURSIVE C17_SumFor(_, _)
C17_SumFor(id, i) ==
    IF i = 0
    THEN ZeroVector
    ELSE IF last.preRegs[i].particle = id
         THEN C8_Plus(C17_Contribution(i), C17_SumFor(id, i - 1))
         ELSE C17_SumFor(id, i - 1)

\* C17: UpdateForces(dt) calls UpdateForce once for every registration, in
\* insertion order, each on the particle of its registration, and leaves the
\* registrations as they were; afterwards the accumulator of every particle
\* has grown by the sum of the contributions of the registrations that target
\* it, and nothing else of the particle has changed.
C17_UpdateForcesOncePerRegistration ==
    last.op = "UpdateForces" =>
        /\ Len(last.calls) = Len(last.preRegs)
        /\ \A i \in 1..Len(last.preRegs) :
              /\ last.calls[i].fg = last.preRegs[i].fg
              /\ last.calls[i].particle = last.preRegs[i].particle
        /\ registrations = last.preRegs
        /\ \A id \in DOMAIN particles :
              particles[id] =
                [last.pre[id] EXCEPT !.forceAccumulator =
                    C8_Plus(@, C17_SumFor(id, Len(last.preRegs)))]

\* UpdateForces ran over three registrations, two generators on one particle
\* with a registration of the other particle between them, and each particle
\* received the forces of its own registrations
C17_Witness ==
    /\ last.op = "UpdateForces"
    /\ Len(last.preRegs) = 3
    /\ last.preRegs[1].particle = last.preRegs[3].particle
    /\ last.preRegs[1].particle # last.preRegs[2].particle
    /\ last.preRegs[1].fg # last.preRegs[3].fg
    /\ \A i \in 1..3 : NonZero(C17_Contribution(i))
    /\ \A id \in DOMAIN particles :
            NonZero(last.pre[id].forceAccumulator)

----------------------------------------------------------------------------
(* Properties of damping and of the mass *)

C20_Agree ==
    LET p == particles["p1"]
    IN  /\ p.inverseMass.sign >= 0
        /\ Float64HasFiniteMass(p) <=> p.inverseMass # Float64Zero
        /\ Float64HasFiniteMass(p) <=> Float64Mass(p) # Float64Inf
        /\ Float64HasFiniteMass(p) <=> ~Float64IntegrateFailsOnMass(p)
        /\ (last.arg.sign > 0) => Float64HasFiniteMass(p)
        /\ (last.arg.sign <= 0) => Float64Mass(p) = Float64Inf

----------------------------------------------------------------------------
(* Properties of the frame loop *)

\* C21: in the frame loop (UpdateForces(dt), then Integrate(dt) on every
\* registered particle) the accumulator of every registered particle is the
\* zero vector at the start of every frame: between two frames it holds
\* nothing of an earlier frame.
C21_AccumulatorZeroAtFrameStart ==
    frame.phase = "idle" =>
        \A id \in Registered : particles[id].forceAccumulator = ZeroVector

\* what the UpdateForces of the frame before contributed to particle id by the
\* registrations i, i-1, .., 1: the forces their generators add to an empty
\* accumulator of the particle as it was then
RECURSIVE C22_LateFrom(_, _)
C22_LateFrom(id, i) ==
    IF i = 0
    THEN ZeroVector
    ELSE IF registrations[i].particle = id
         THEN C8_Plus(UpdateForce(generators[registrations[i].fg],
                                  ClearForces(frame.start[id]),
                                  frame.duration).forceAccumulator,
                      C22_LateFrom(id, i - 1))
         ELSE C22_LateFrom(id, i - 1)

C22_Late(id) == C22_LateFrom(id, Len(registrations))

\* an Integrate of the misordered loop succeeded in a frame after the first
C22_LaterIntegrate == LastIntegrate /\ last.err = Nil /\ frame.count >= 1

\* only Integrate reports errors, and only for the mass and the duration
C22_NoErrorForMisordering ==
    last.err # Nil =>
        /\ LastIntegrate
        /\ RLe(Pre.inverseMass, Zero) \/ RLe(last.arg, Zero)
        /\ Post = Pre

\* C22: when Integrate runs before the frame's UpdateForces, no operation
\* reports the misordering, and what that UpdateForces contributed is dropped:
\* it changes the velocity in no Integrate, so a later successful Integrate
\* yields the velocity it yields from the accumulator as it was before that
\* UpdateForces.
C22_ContributionsDropped ==
    /\ C22_NoErrorForMisordering
    /\ C22_LaterIntegrate =>
          Post.Velocity =
            Integrate([Pre EXCEPT !.forceAccumulator =
                                      frame.start[last.id].forceAccumulator],
                      last.arg).Velocity

\* C22 as the code has it: when Integrate runs before the frame's
\* UpdateForces, no operation reports the misordering and that UpdateForces
\* changes neither velocity nor position; its contributions stay in the
\* accumulator, and the particle's next successful Integrate applies them to
\* the velocity, vel' = (vel + (acc + (F + late) * invMass) * dt) * damping^dt
\* with F the accumulator before that UpdateForces, and clears them.
C22_ContributionsAppliedLate ==
    /\ C22_NoErrorForMisordering
    /\ last.op = "UpdateForces" =>
          \A id \in DOMAIN particles :
             /\ particles[id].Velocity = last.pre[id].Velocity
             /\ particles[id].Position = last.pre[id].Position
             /\ particles[id].forceAccumulator =
                    C8_Plus(last.pre[id].forceAccumulator, C22_Late(id))
    /\ C22_LaterIntegrate =>
          LET dt == last.arg
              w == Pre.inverseMass
              F == C8_Plus(frame.start[last.id].forceAccumulator, C22_Late(last.id))
          IN  /\ Post.Velocity.X = C4_Velocity(Pre.Velocity.X, Pre.Acceleration.X,
                                               F.X, w, Pre.Damping, dt)
              /\ Post.Velocity.Y = C4_Velocity(Pre.Velocity.Y, Pre.Acceleration.Y,
                                               F.Y, w, Pre.Damping, dt)
              /\ Post.Velocity.Z = C4_Velocity(Pre.Velocity.Z, Pre.Acceleration.Z,
                                               F.Z, w, Pre.Damping, dt)
              /\ Post.forceAccumulator = ZeroVector

\* in the second frame Integrate succeeded on a particle whose accumulator
\* held exactly what the first frame's UpdateForces had contributed after the
\* particle's first Integrate, and the velocity is not the one an empty
\* accumulator yields
C22_Witness ==
    /\ C22_LaterIntegrate
    /\ frame.start[last.id].forceAccumulator = ZeroVector
    /\ NonZero(C22_Late(last.id))
    /\ Pre.forceAccumulator = C22_Late(last.id)
    /\ Post.Velocity # Integrate(ClearForces(Pre), last.arg).Velocity

\* the calls C24 is about: they set neither the mass nor a field
C24_NoSetter ==
    last.op \in {"Integrate", "AddForce", "ClearForces", "UpdateForces", "UpdateForce"}

\* C24: Integrate, AddForce, ClearForces and UpdateForces, failing or not,
\* leave the constant acceleration, the damping and the inverse mass of every
\* particle as they were, so these keep the values of the construction or of
\* the last setter; a successful Integrate folds the accumulated force into a
\* copy of the acceleration, not into the Acceleration field.
C24_ConstantsKept ==
    /\ C24_NoSetter =>
          \A id \in DOMAIN particles :
             /\ particles[id].Acceleration = last.pre[id].Acceleration
             /\ particles[id].Damping = last.pre[id].Damping
             /\ particles[id].inverseMass = last.pre[id].inverseMass
    /\ \A id \in DOMAIN particles :
          /\ particles[id].Acceleration = built[id].acceleration
          /\ particles[id].Damping = built[id].damping

\* a successful Integrate folded a force into the velocity of a particle whose
\* mass a setter had changed since the construction: the velocity is not the
\* one the acceleration alone yields, and the inverse mass is the setter's
C24_Witness ==
    /\ LastIntegrate
    /\ last.err = Nil
    /\ NonZero(Pre.forceAccumulator)
    /\ Post.Velocity # Integrate(ClearForces(Pre), last.arg).Velocity
    /\ Post.inverseMass # Construct(built[last.id]).inverseMass
    /\ Post.inverseMass = R(2)

----------------------------------------------------------------------------
(* Properties of the drag and gravity forces *)

C23_Dot(u, v) ==
    RAdd(RAdd(RMul(u.X, v.X), RMul(u.Y, v.Y)), RMul(u.Z, v.Z))

\* the force of the documented drag law on a particle of velocity v:
\* -normalize(v) * (K1*|v| + K2*|v|^2)
C23_DocumentedDrag(d, v) ==
    LET speed == Magnitude(v)
        strength == RAdd(RMul(d.K1, speed), RMul(d.K2, RMul(speed, speed)))
    IN  ScaleCopy(Normalize(v), RSub(Zero, strength))

\* C23: the force DragGenerator.UpdateForce adds to a moving particle acts
\* against the velocity (its dot product with the velocity is not positive
\* for K1, K2 >= 0) and has the strength K1*|v| + K2*|v|^2.
C23_DragOpposesVelocity ==
    (LastUpdateForce(DragKind) /\ NonZero(Pre.Velocity)) =>
        LET d == generators[last.fg]
            force == C23_DocumentedDrag(d, Pre.Velocity)
        IN  /\ RLe(Zero, d.K1) /\ RLe(Zero, d.K2)
            /\ RLe(C23_Dot(force, Pre.Velocity), Zero)
            /\ Post.forceAccumulator = C8_Plus(Pre.forceAccumulator, force)

\* the gravity vectors and masses C25 is computed for besides the registered one
C25_Gravities == {Vec(0, -10, 0), Vec(3, 0, -4), Vec(0, 0, 0)}
C25_Masses == {R(1), R(3), Frac(1, 2), Frac(7, 5)}

\* one frame on p with the gravity g registered, and one Integrate on p with
\* g added to its acceleration, agree on position and velocity
C25_Equivalent(p, g, dt) ==
    LET framed == Integrate(UpdateForce(NewGravityGenerator(g), p, dt), dt)
        biased == Integrate([p EXCEPT !.Acceleration = Add(@, g)], dt)
    IN  /\ framed.Position = biased.Position
        /\ framed.Velocity = biased.Velocity

\* the frame that just ended began with p1 and p2 alike in position and
\* velocity, p1 of finite mass and with an empty accumulator
C25_FrameOfTwins ==
    /\ frame.phase = "idle"
    /\ frame.count > 0
    /\ HasFiniteMass(frame.start["p1"])
    /\ frame.start["p1"].forceAccumulator = ZeroVector
    /\ frame.start["p1"].Position = frame.start["p2"].Position
    /\ frame.start["p1"].Velocity = frame.start["p2"].Velocity

\* C25: gravity as a registered force equals gravity as constant acceleration,
\* whatever the mass: a finite-mass particle with an empty accumulator,
\* acceleration a and one GravityGenerator(g) registered has after one frame
\* UpdateForces(dt); Integrate(dt) the position and velocity that the same
\* particle with acceleration a + g and no registration has after
\* Integrate(dt).
C25_GravityAsAcceleration ==
    /\ C25_FrameOfTwins =>
          /\ particles["p1"].Position = particles["p2"].Position
          /\ particles["p1"].Velocity = particles["p2"].Velocity
    /\ \A g \in C25_Gravities, m \in C25_Masses, dt \in Durations :
          C25_Equivalent(NewParticleMass(Vec(1, 0, 0), Vec(3, 0, 4), Vec(0, -2, 0),
                                         Frac(1, 2), m), g, dt)

\* the second frame in a row, of 2 seconds, moved a particle of mass 3 under
\* the registered gravity and its twin under the summed acceleration
C25_Witness ==
    /\ C25_FrameOfTwins
    /\ frame.count = 2
    /\ frame.duration = R(2)
    /\ Mass(particles["p1"]) = R(3)
    /\ registrations = <<[particle |-> "p1", fg |-> "gravity"]>>
    /\ particles["p1"].Acceleration # particles["p2"].Acceleration
    /\ particles["p1"].Velocity # frame.start["p1"].Velocity
    /\ particles["p1"].Position # built["p1"].position

====
